---- MODULE Spec2Model ----
(***************************************************************************)
(* Model of the caching layer of the book recommendation service:          *)
(* utils/decorators/cache.py (generate_cache_key, the JSON codec, the      *)
(* cached and invalidate_cache decorators), the Redis handle obtained by   *)
(* services/base.py and the decorated service operations.                  *)
(*                                                                         *)
(* Strings are sequences of atoms (short literal pieces).  The atoms used  *)
(* form a prefix code (no atom is a prefix of another one), so two         *)
(* sequences are equal exactly when the strings they spell are equal, and  *)
(* a glob '*' always stands for a whole number of atoms.                   *)
(***************************************************************************)
EXTENDS Integers, Sequences, FiniteSets, TLC

VARIABLES
    cache,   \* the receiver's cache attribute (kind of handle), services/base.py:12
    store,   \* the Redis keyspace: key -> [val, ttl, at]
    db,      \* the row the wrapped operations read and write
    now,     \* backend clock, seconds
    calls,   \* the wrapper calls in flight, one record per call slot
    sites,   \* two call sites of decorated reads and the keys derived for them
    tables,  \* the books and user-book interactions of the relational database
    wrapped  \* a call of an operation decorated with db_exception_handler

vars == <<cache, store, db, now, calls, sites, tables, wrapped>>

-----------------------------------------------------------------------------
(* Strings *)

RECURSIVE Join(_, _)
\* sep.join(parts): parts is a sequence of strings
Join(sep, parts) ==
    IF parts = <<>> THEN <<>>
    ELSE IF Len(parts) = 1 THEN parts[1]
    ELSE parts[1] \o sep \o Join(sep, Tail(parts))

RECURSIVE StrLen(_)
\* len(s) in characters
StrLen(s) == IF s = <<>> THEN 0 ELSE Len(Head(s)) + StrLen(Tail(s))

Contains(s, atom) == \E i \in 1..Len(s) : s[i] = atom

COLON == <<":">>

-----------------------------------------------------------------------------
(* Python values: a type tag and the printed form.                         *)

PyNone == [ty |-> "NoneType", v |-> <<"None">>]
PyZero == [ty |-> "int", v |-> <<"0">>]
PyFalse == [ty |-> "bool", v |-> <<"False">>]
PyEmptyList == [ty |-> "list", v |-> <<"[", "]">>]
PyList == [ty |-> "list", v |-> <<"[", "1", "]">>]
PyTuple == [ty |-> "tuple", v |-> <<"(", "1", ",", ")">>]
PyUser == [ty |-> "User", v |-> <<"id='u1'">>]

\* what a wrapped operation can return
Results == {PyNone, PyZero, PyEmptyList, PyTuple, PyUser}

PyStr(s) == [ty |-> "str", v |-> s]
PyInt(digits) == [ty |-> "int", v |-> <<digits>>]
PySession(addr) == [ty |-> "Session", v |-> <<addr>>]
PyUserUpdate == [ty |-> "UserUpdate", v |-> <<"user", "name", "='bob'">>]

\* str(arg): a Session has the default object repr, which shows its address;
\* every other value prints as its printed form, the type tag is lost
Str(x) ==
    IF x.ty = "Session"
    THEN <<"<sqlmodel.orm.session.Session object at 0x">> \o x.v \o <<">">>
    ELSE x.v

-----------------------------------------------------------------------------
(* Exceptions *)

NoExc == [type |-> "none", code |-> "", message |-> ""]
UsernameExists ==
    [type |-> "ValidationException", code |-> "VALIDATION_ERROR",
     message |-> "Username already exists"]
EmailExists ==
    [type |-> "ValidationException", code |-> "VALIDATION_ERROR",
     message |-> "Email already exists"]
DomainErrors == {UsernameExists, EmailExists}

ConnectionError == [type |-> "ConnectionError", code |-> "", message |-> "redis"]
AwaitTypeError ==
    [type |-> "TypeError", code |-> "", message |-> "object can't be used in 'await' expression"]
UnicodeDecodeError == [type |-> "UnicodeDecodeError", code |-> "", message |-> "utf-8"]
BuilderError == [type |-> "KeyError", code |-> "", message |-> "key_builder"]
SerializeError ==
    [type |-> "CacheSerializationException", code |-> "CACHE_SERIALIZATION_ERROR",
     message |-> "serialize"]
DeserializeError ==
    [type |-> "CacheSerializationException", code |-> "CACHE_SERIALIZATION_ERROR",
     message |-> "deserialize"]

\* isinstance(e, CacheException)
IsCacheException(e) == e.type = "CacheSerializationException"

-----------------------------------------------------------------------------
(* Serialization codec *)

\* json.dumps(data): a tuple is written as an array, an ORM object is refused
JsonDumps(data) ==
    CASE data.ty = "NoneType" -> [ok |-> TRUE, text |-> <<"null">>]
      [] data.ty = "bool" ->
            [ok |-> TRUE, text |-> IF data.v = <<"False">> THEN <<"false">> ELSE <<"true">>]
      [] data.ty = "int" -> [ok |-> TRUE, text |-> data.v]
      [] data.ty = "list" -> [ok |-> TRUE, text |-> data.v]
      [] data.ty = "tuple" ->
            [ok |-> TRUE,
             text |-> <<"[">> \o SubSeq(data.v, 2, Len(data.v) - 2) \o <<"]">>]
      [] OTHER -> [ok |-> FALSE, text |-> <<>>]

\* json.loads(text)
JsonLoads(text) ==
    CASE text = <<"null">> -> [ok |-> TRUE, val |-> PyNone]
      [] text = <<"false">> -> [ok |-> TRUE, val |-> PyFalse]
      [] text = <<"0">> -> [ok |-> TRUE, val |-> PyZero]
      [] text = <<"[", "]">> -> [ok |-> TRUE, val |-> PyEmptyList]
      [] text = <<"[", "1", "]">> -> [ok |-> TRUE, val |-> PyList]
      [] OTHER -> [ok |-> FALSE, val |-> PyNone]

serialize_cache_data(data) ==
    LET r == JsonDumps(data)
    IN  [ok |-> r.ok, text |-> r.text, exc |-> IF r.ok THEN NoExc ELSE SerializeError]

deserialize_cache_data(data_str) ==
    LET r == JsonLoads(data_str)
    IN  [ok |-> r.ok, val |-> r.val, exc |-> IF r.ok THEN NoExc ELSE DeserializeError]

\* bytes.decode(): the byte 0xff is no valid UTF-8
Decode(bytes) ==
    IF Contains(bytes, "\\xff")
    THEN [ok |-> FALSE, text |-> <<>>]
    ELSE [ok |-> TRUE, text |-> bytes]

-----------------------------------------------------------------------------
(* Cache key builder *)

\* rank of a keyword name in lexicographic order (sorted() compares the names)
KwRank(k) ==
    CASE k = <<"limit">> -> 1
      [] k = <<"skip">> -> 2
      [] OTHER -> 3

RECURSIVE Insert(_, _)
Insert(item, sorted) ==
    IF sorted = <<>> THEN <<item>>
    ELSE IF KwRank(item.k) <= KwRank(Head(sorted).k) THEN <<item>> \o sorted
    ELSE <<Head(sorted)>> \o Insert(item, Tail(sorted))

SortedItems_CallOrder(kwargs) == kwargs

RECURSIVE SortedItems(_)
\* sorted(kwargs.items()); kwargs is the sequence of [k, v] in call-site order
SortedItems(kwargs) ==
    IF kwargs = <<>> THEN <<>> ELSE Insert(Head(kwargs), SortedItems(Tail(kwargs)))

\* key_base = ":".join([prefix, func_name] + args_str + kwargs_str)
KeyBase(prefix, func_name, args, kwargs) ==
    LET args_str == [i \in 1..Len(args) |-> Str(args[i])]
        items == SortedItems(kwargs)
        kwargs_str == [i \in 1..Len(items) |-> items[i].k \o COLON \o Str(items[i].v)]
        key_components == <<prefix, func_name>> \o args_str \o kwargs_str
    IN  Join(COLON, key_components)

\* a username of 124 characters and one of 123
Name124 == "bbbbbbbbbbbbbbbbbbbbbbbbbbbbbbbbbbbbbbbbbbbbbbbbbbbbbbbbbbbbbbbbbbbbbbbbbbbbbbbbbbbbbbbbbbbbbbbbbbbbbbbbbbbbbbbbbbbbbbbbbbbb"
Name123 == "aaaaaaaaaaaaaaaaaaaaaaaaaaaaaaaaaaaaaaaaaaaaaaaaaaaaaaaaaaaaaaaaaaaaaaaaaaaaaaaaaaaaaaaaaaaaaaaaaaaaaaaaaaaaaaaaaaaaaaaaaaa"

\* str() of the BookSearchParams of a search for the title dune
DuneParams ==
    [ty |-> "BookSearchParams",
     v |-> <<"title='", "dune", "'",
             " author=None category_id=None language=None min_publication_year=None max_publication_year=None min_page_count=None max_page_count=None min_rating=None">>]

\* hashlib.md5(key_base.encode()).hexdigest(): the digests of the key bases
\* of 200 characters and more that occur
Md5Hex(s) ==
    <<CASE s = KeyBase(<<"user", "_", "service">>, <<"get", "_", "by", "_", "user", "name">>,
                     <<PySession("7f01"), PyStr(<<Name124>>)>>, <<>>) ->
            "a8a13746eb94d39cdd3f01b842f82f7a"
      [] s = KeyBase(<<"user", "_", "service">>, <<"get", "_", "by", "_", "user", "name">>,
                     <<PySession("7f01"), PyStr(<<Name123>>)>>, <<>>) ->
            "a1d0cfab9885732999daa547a4ce7f24"
      [] s = KeyBase(<<"book", "_", "service">>, <<"search", "_", "book", "s">>,
                     <<PySession("7f01"), DuneParams>>, <<>>) ->
            "61f78695cbf470eb678dd6d3b4de6574"
      [] s = KeyBase(<<"user", "_", "service">>, <<"get", "_", "by", "_", "user", "name">>,
                     <<PySession("7f02"), PyStr(<<Name124>>)>>, <<>>) ->
            "8a337e7ca629610f6ee2edc8a9635cf1"
      [] s = KeyBase(<<"user", "_", "service">>, <<"get", "_", "by", "_", "user", "name">>,
                     <<PySession("7f02"), PyStr(<<Name123>>)>>, <<>>) ->
            "cbfc415dd106bb1a48054536141641fb"
      [] s = KeyBase(<<"book", "_", "service">>, <<"search", "_", "book", "s">>,
                     <<PySession("7f02"), DuneParams>>, <<>>) ->
            "2a303f75d4232775a171ab82fa8e5766">>

KeyHashThreshold == 200

TooLong_Inclusive(key_base) == StrLen(key_base) >= KeyHashThreshold

\* if len(key_base) > 200
TooLong(key_base) == StrLen(key_base) > KeyHashThreshold

generate_cache_key(prefix, func_name, args, kwargs) ==
    LET key_base == KeyBase(prefix, func_name, args, kwargs)
    IN  IF TooLong(key_base)
        THEN Join(COLON, <<prefix, func_name, <<"hash">>, Md5Hex(key_base)>>)
        ELSE key_base

-----------------------------------------------------------------------------
(* The decorated operations *)

user_service == <<"user", "_", "service">>
book_service == <<"book", "_", "service">>

\* services/user.py: @cached(prefix="user_service", ttl=300) get_by_username
GetByUsername ==
    [name |-> <<"get", "_", "by", "_", "user", "name">>, deco |-> "cached",
     prefix |-> user_service, ttl |-> 300, key_pattern |-> <<>>, key_builder |-> FALSE]

\* a read decorated with a custom key_builder
GetWithBuilder ==
    [name |-> <<"get", "_", "custom">>, deco |-> "cached",
     prefix |-> user_service, ttl |-> 600, key_pattern |-> <<>>, key_builder |-> TRUE]

\* services/user.py: @invalidate_cache(prefix="user_service") update_user
UpdateUser ==
    [name |-> <<"update", "_", "user">>, deco |-> "invalidate_cache",
     prefix |-> user_service, ttl |-> 0, key_pattern |-> <<>>, key_builder |-> FALSE]

\* services/book.py: @invalidate_cache(prefix="book_service", key_pattern="book_*")
UpdateBookRatings ==
    [name |-> <<"update", "_", "book", "_", "ratings">>, deco |-> "invalidate_cache",
     prefix |-> book_service, ttl |-> 0, key_pattern |-> <<"book", "_", "*">>,
     key_builder |-> FALSE]

\* a mutation decorated with a literal key_pattern
UpdateWithLiteral ==
    [name |-> <<"update", "_", "literal">>, deco |-> "invalidate_cache",
     prefix |-> user_service, ttl |-> 0, key_pattern |-> <<"all">>, key_builder |-> FALSE]

\* a mutation decorated with a custom key_builder
UpdateWithBuilder ==
    [name |-> <<"update", "_", "custom">>, deco |-> "invalidate_cache",
     prefix |-> user_service, ttl |-> 0, key_pattern |-> <<"book", "_", "*">>,
     key_builder |-> TRUE]

CachedOps == {GetByUsername, GetWithBuilder}
InvalidateOps == {UpdateUser, UpdateBookRatings, UpdateWithLiteral, UpdateWithBuilder}

\* the positional arguments after self, per operation
ArgShapes(op) ==
    IF op = UpdateUser
    THEN {<<PySession("7f01"), PyStr(<<"u1">>), PyUserUpdate>>}
    ELSE IF op = UpdateBookRatings
    THEN {<<PySession("7f01"), PyStr(<<"b1">>)>>}
    ELSE IF op = UpdateWithLiteral
    THEN {<<PySession("7f01"), PyStr(<<"alice">>)>>, <<PySession("7f01"), PyStr(<<"u1">>)>>}
    ELSE {<<PySession("7f01"), PyStr(<<"alice">>)>>}

\* keys a custom key_builder may return
CustomKey == user_service \o COLON \o <<"custom">> \o COLON \o <<"alice">>
CustomListKey == user_service \o COLON \o <<"list">>

\* a list of keys
KeyList(keys) == [ty |-> "list", items |-> keys]

\* what the key_builder of an invalidation can return: one key as a string,
\* a list of keys, an empty list
BuilderReturns ==
    {PyStr(CustomKey), KeyList(<<CustomKey, CustomListKey>>), KeyList(<<>>)}

-----------------------------------------------------------------------------
(* State *)

Calls == {"c1", "c2"}

\* the kinds of value the receiver's cache attribute can have
CacheKinds == {"absent", "None", "RedisClient", "Redis", "AsyncRedis"}

\* an entry of the keyspace: the bytes, the expiry given to SETEX, the time of
\* the write and the time at which the value was computed
NoEntry == [val |-> <<>>, ttl |-> 0, at |-> 0, computed |-> 0]

\* a call slot: the wrapper's locals (op, args, key, result, the keys still to
\* delete, the scan cursor), its position, its outcome, and what it has done
\* so far (fcount, trace, store0: the keyspace when the wrapper was entered,
\* ftime: the time of the last execution of f, served: the entry of a hit)
Idle ==
    [pc |-> "idle", op |-> GetByUsername, is_async |-> TRUE, args |-> <<>>,
     kwargs |-> <<>>, key |-> <<>>, ser |-> <<>>, result |-> PyNone, fcount |-> 0,
     trace |-> <<>>, outcome |-> "none", retval |-> PyNone, exc |-> NoExc,
     pending |-> <<>>, cursor |-> 0, scanning |-> FALSE, store0 |-> <<>>,
     ftime |-> 0, served |-> NoEntry]

\* an entry of the trace of a call: a backend operation, an execution of the
\* wrapped operation, or a call of the key_builder
Event(ev, key, st, val) ==
    [ev |-> ev, key |-> key, st |-> st, val |-> val, exc |-> NoExc, t |-> now]

\* the trace entry of one execution of the wrapped operation
FEvent(o) ==
    [ev |-> "f", key |-> <<>>, st |-> IF o.raised THEN "raise" ELSE "return",
     val |-> o.val, exc |-> o.exc, t |-> now]

\* the trace entry of one SCAN: the cursor passed, the cursor and the keys
\* returned
ScanEvent(pattern, st, cursor, next, keys) ==
    [ev |-> "scan", key |-> pattern, st |-> st, val |-> PyNone, exc |-> NoExc,
     cur |-> cursor, nxt |-> next, keys |-> keys, t |-> now]

\* the trace entry of the call of the key_builder of invalidate_cache: the
\* result it was given and what it returned
BuilderEvent(st, result, ret) ==
    [ev |-> "key_builder", key |-> <<>>, st |-> st, val |-> result, exc |-> NoExc,
     ret |-> ret, t |-> now]

HasKey(k) == k \in DOMAIN store

\* the values a pre-existing entry can hold: empty, JSON null, malformed
\* JSON, bytes that are no UTF-8
SeedBytes == {<<>>, <<"null">>, <<"{bad">>, <<"\\xff">>}

Entry(val, ttl, computed) ==
    [val |-> val, ttl |-> ttl, at |-> now, computed |-> computed]

\* not hasattr(self, "cache") or self.cache is None, then isinstance: the async
\* wrappers accept Redis and AsyncRedis, the sync wrappers Redis only
CacheAvailable_NoIsinstance(is_async) == cache \notin {"absent", "None"}

CacheAvailable(is_async) ==
    \/ cache = "Redis"
    \/ cache = "AsyncRedis" /\ is_async

\* the result of a call on the client can be awaited only if the client is
\* the asyncio one; the sync wrappers do not await
Awaitable(is_async) == ~is_async \/ cache = "AsyncRedis"

\* one execution of a wrapped read: it returns the row or raises
ReadOutcomes ==
    {[raised |-> FALSE, val |-> db, exc |-> NoExc]}
        \cup {[raised |-> TRUE, val |-> PyNone, exc |-> e] : e \in DomainErrors}

Set(c, rec) == calls' = [calls EXCEPT ![c] = rec]

Returned(call, val) ==
    [call EXCEPT !.pc = "done", !.outcome = "return", !.retval = val]

Raised(call, e) ==
    [call EXCEPT !.pc = "done", !.outcome = "raise", !.exc = e]

Log(call, e) == [call EXCEPT !.trace = Append(@, e)]

\* the call after one execution of the wrapped operation with outcome o
Ran(call, o) ==
    Log([call EXCEPT !.fcount = @ + 1, !.result = o.val, !.ftime = now], FEvent(o))

-----------------------------------------------------------------------------
(* cached: the read-through wrapper *)

\* cache_key = generate_cache_key(prefix, func.__name__, args, kwargs)
CachedKey(op, args, kwargs) == generate_cache_key(op.prefix, op.name, args, kwargs)

\* if cached_data: a non-empty bytes value
IsHit(cached_data) == cached_data # <<>>

OnHit_FallsThrough(call, val) ==
    Log([call EXCEPT !.pc = "exec"], Event("get", call.key, "hit", val))

\* return deserialize_cache_data(cached_data.decode())
OnHit(call, val) == Returned(Log(call, Event("get", call.key, "hit", val)), val)

ShouldCache_Truthy(result) == result \notin {PyNone, PyZero, PyEmptyList}

\* if result is not None
ShouldCache(result) == result # PyNone

SetexArgs_DoubleTtl(call) == [key |-> call.key, ttl |-> 2 * call.op.ttl, val |-> call.ser]

SetexArgs_FixedTtl(call) == [key |-> call.key, ttl |-> 300, val |-> call.ser]

\* the arguments of cache_client.setex(cache_key, ttl, serialized_result)
SetexArgs(call) == [key |-> call.key, ttl |-> call.op.ttl, val |-> call.ser]

OnError_Reraise(call, e) == Raised(call, e)

OnError_Retry(call, e) == [call EXCEPT !.pc = "get"]

\* except CacheException / except Exception: both branches log and go on to
\* return func(self, *args, **kwargs)
OnError(call, e) == [call EXCEPT !.pc = "fallback"]

\* the wrapper is entered: the cache attribute is tested and the key derived
CachedStart(c) ==
    /\ calls[c].pc = "idle"
    /\ \E op \in CachedOps, is_async \in BOOLEAN :
       \E args \in ArgShapes(op) :
          LET call == [Idle EXCEPT !.op = op, !.is_async = is_async, !.args = args,
                                   !.store0 = store]
          IN  IF ~CacheAvailable(is_async)
              THEN Set(c, [call EXCEPT !.pc = "direct"])
              ELSE IF op.key_builder
              THEN \E ok \in BOOLEAN :
                     IF ok
                     THEN Set(c, Log([call EXCEPT !.pc = "get", !.key = CustomKey],
                                     Event("key_builder", CustomKey, "return", PyNone)))
                     ELSE Set(c, Raised(Log(call,
                                     Event("key_builder", <<>>, "raise", PyNone)),
                                     BuilderError))
              ELSE Set(c, [call EXCEPT !.pc = "get",
                                       !.key = CachedKey(op, args, call.kwargs)])
    /\ UNCHANGED <<cache, store, db, now, sites, tables, wrapped>>

\* no cache client: return func(self, *args, **kwargs)
CachedDirect(c) ==
    LET call == calls[c] IN
    /\ call.pc = "direct"
    /\ \E o \in ReadOutcomes :
          Set(c, IF o.raised THEN Raised(Ran(call, o), o.exc)
                 ELSE Returned(Ran(call, o), o.val))
    /\ UNCHANGED <<cache, store, db, now, sites, tables, wrapped>>

\* cached_data = cache_client.get(cache_key) and the handling of a hit
CachedGet(c) ==
    LET call == calls[c]
        handler(st, e) == Set(c, OnError(Log(call, Event("get", call.key, st, PyNone)), e))
    IN
    /\ call.pc = "get"
    /\ \/ \* the backend cannot be reached
          handler("error", ConnectionError)
       \/ \* a sync client in the async wrapper: the read is done, await raises
          /\ ~Awaitable(call.is_async)
          /\ handler("TypeError", AwaitTypeError)
       \/ /\ Awaitable(call.is_async)
          /\ IF HasKey(call.key) /\ IsHit(store[call.key].val)
             THEN LET text == Decode(store[call.key].val)
                      got == deserialize_cache_data(text.text)
                  IN  IF ~text.ok THEN handler("undecodable", UnicodeDecodeError)
                      ELSE IF ~got.ok THEN handler("malformed", got.exc)
                      ELSE Set(c, [OnHit(call, got.val) EXCEPT
                                        !.served = store[call.key]])
             ELSE Set(c, Log([call EXCEPT !.pc = "exec"],
                             Event("get", call.key, "miss", PyNone)))
    /\ UNCHANGED <<cache, store, db, now, sites, tables, wrapped>>

\* result = func(self, *args, **kwargs) after a miss, and serialization
CachedExec(c) ==
    LET call == calls[c] IN
    /\ call.pc = "exec"
    /\ \E o \in ReadOutcomes :
          LET ran == Ran(call, o)
              ser == serialize_cache_data(o.val)
          IN  IF o.raised THEN Set(c, OnError(ran, o.exc))
              ELSE IF ~ShouldCache(o.val) THEN Set(c, Returned(ran, o.val))
              ELSE IF ~ser.ok
              THEN Set(c, OnError(Log(ran, Event("serialize", call.key, "raise", o.val)),
                                  ser.exc))
              ELSE Set(c, [ran EXCEPT !.pc = "store", !.ser = ser.text])
    /\ UNCHANGED <<cache, store, db, now, sites, tables, wrapped>>

\* the backend keeps the entry a key already has
Setex_KeepExisting(st, a, computed) ==
    [k \in DOMAIN st \cup {a.key} |->
        IF k \in DOMAIN st THEN st[k] ELSE Entry(a.val, a.ttl, computed)]

\* the keyspace after SETEX: the key holds the value written, whatever it
\* held before
Setex(st, a, computed) ==
    [k \in DOMAIN st \cup {a.key} |->
        IF k = a.key THEN Entry(a.val, a.ttl, computed) ELSE st[k]]

\* cache_client.setex(cache_key, ttl, serialized_result); return result
CachedStore(c) ==
    LET call == calls[c]
        a == SetexArgs(call)
    IN
    /\ call.pc = "store"
    /\ \/ /\ Set(c, OnError(Log(call, Event("setex", a.key, "error", call.result)),
                            ConnectionError))
          /\ UNCHANGED store
       \/ /\ store' = Setex(store, a, call.ftime)
          /\ Set(c, Returned(Log(call, Event("setex", a.key, "ok", call.result)),
                             call.result))
    /\ UNCHANGED <<cache, db, now, sites, tables, wrapped>>

\* the except branches: return func(self, *args, **kwargs)
CachedFallback(c) ==
    LET call == calls[c] IN
    /\ call.pc = "fallback"
    /\ \E o \in ReadOutcomes :
          Set(c, IF o.raised THEN Raised(Ran(call, o), o.exc)
                 ELSE Returned(Ran(call, o), o.val))
    /\ UNCHANGED <<cache, store, db, now, sites, tables, wrapped>>

\* the caller takes the result; the slot is free for the next call
Finish(c) ==
    /\ calls[c].pc = "done"
    /\ Set(c, Idle)
    /\ UNCHANGED <<cache, store, db, now, sites, tables, wrapped>>

-----------------------------------------------------------------------------
(* The backend's SCAN and DEL *)

RECURSIVE Match(_, _)
\* glob match of a key against a pattern whose only special atom is '*'
Match(pattern, key) ==
    IF pattern = <<>> THEN key = <<>>
    ELSE IF Head(pattern) = "*"
    THEN Match(Tail(pattern), key) \/ (key # <<>> /\ Match(pattern, Tail(key)))
    ELSE key # <<>> /\ Head(key) = Head(pattern) /\ Match(Tail(pattern), Tail(key))

\* number of slots of the keyspace table a SCAN walks through, one per call
ScanSlots == 2

\* the slot a key hashes to
Slot(key) == StrLen(key) % ScanSlots

\* SCAN cursor MATCH pattern: the matching keys of the slot the cursor names
ScanBatch(cursor, pattern) ==
    {k \in DOMAIN store : Slot(k) = cursor /\ Match(pattern, k)}

\* the cursor a SCAN returns: 0 after the last slot
NextCursor(cursor) == IF cursor + 1 >= ScanSlots THEN 0 ELSE cursor + 1

\* the orders in which a reply can list a set of keys
Orders(S) ==
    {q \in [1..Cardinality(S) -> S] : \A i, j \in 1..Cardinality(S) : q[i] = q[j] => i = j}

\* DEL leaves the entry in place
Without_Keep(k) == store

\* the keyspace after DEL k
Without(k) == [x \in DOMAIN store \ {k} |-> store[x]]

-----------------------------------------------------------------------------
(* invalidate_cache: the invalidation wrapper *)

\* one execution of a wrapped mutation: it commits a new row and returns it,
\* returns None without a change (no such row), or raises without a change
MutateOutcomes ==
    {[raised |-> FALSE, val |-> v, exc |-> NoExc] : v \in Results}
        \cup {[raised |-> TRUE, val |-> PyNone, exc |-> e] : e \in DomainErrors}

DefaultKeys_NoArgs(op, args, kwargs) ==
    <<generate_cache_key(op.prefix, op.name, <<>>, <<>>)>>

\* Default: invalidate function-specific cache with same args
DefaultKeys(op, args, kwargs) == <<generate_cache_key(op.prefix, op.name, args, kwargs)>>

OnMutationRaise_Finally(call, e) ==
    [call EXCEPT !.pc = "delete", !.pending = DefaultKeys(call.op, call.args, call.kwargs)]

\* result = func(self, *args, **kwargs) stands outside the try block
OnMutationRaise(call, e) == Raised(call, e)

OnInvalidationError_Raise(call, e) == Raised(call, e)

\* except Exception as e: logger.error(...), then return result
OnInvalidationError(call, e) == Returned(call, call.result)

KeysToInvalidate_Iterate(ret) ==
    IF ret.ty = "str" THEN [i \in 1..Len(ret.v) |-> <<ret.v[i]>>] ELSE ret.items

\* if isinstance(keys_to_invalidate, str): keys_to_invalidate = [keys_to_invalidate]
KeysToInvalidate(ret) == IF ret.ty = "str" THEN <<ret.v>> ELSE ret.items

LiteralKey_Bare(op) == op.key_pattern

\* full_key = f"{prefix}:{key_pattern}"
LiteralKey(op) == op.prefix \o COLON \o op.key_pattern

InvStart(c) ==
    /\ calls[c].pc = "idle"
    /\ \E op \in InvalidateOps, is_async \in BOOLEAN :
       \E args \in ArgShapes(op) :
          Set(c, [Idle EXCEPT !.pc = "mutate", !.op = op, !.is_async = is_async,
                              !.args = args, !.store0 = store])
    /\ UNCHANGED <<cache, store, db, now, sites, tables, wrapped>>

\* result = func(self, *args, **kwargs), the test of the cache attribute and
\* the choice of the keys to invalidate
InvMutate(c) ==
    LET call == calls[c]
        op == call.op
    IN
    /\ call.pc = "mutate"
    /\ \E o \in MutateOutcomes :
          LET ran == Ran(call, o)
          IN  /\ db' = IF o.raised \/ o.val = PyNone THEN db ELSE o.val
              /\ IF o.raised THEN Set(c, OnMutationRaise(ran, o.exc))
                 ELSE IF ~CacheAvailable(call.is_async) THEN Set(c, Returned(ran, o.val))
                 ELSE IF op.key_builder
                 THEN \/ Set(c, OnInvalidationError(
                               Log(ran, BuilderEvent("raise", o.val, PyNone)),
                               BuilderError))
                      \/ \E ret \in BuilderReturns :
                            LET keys == KeysToInvalidate(ret)
                                built == Log(ran, BuilderEvent("return", o.val, ret))
                            IN  IF keys = <<>> THEN Set(c, Returned(built, o.val))
                                ELSE Set(c, [built EXCEPT !.pc = "delete",
                                                          !.pending = keys])
                 ELSE IF op.key_pattern # <<>>
                 THEN IF Contains(op.key_pattern, "*")
                      THEN Set(c, [ran EXCEPT !.pc = "scan", !.scanning = TRUE,
                                              !.cursor = 0])
                      ELSE Set(c, [ran EXCEPT !.pc = "delete",
                                              !.pending = <<LiteralKey(op)>>])
                 ELSE Set(c, [ran EXCEPT !.pc = "delete",
                                 !.pending = DefaultKeys(op, call.args, call.kwargs)])
    /\ UNCHANGED <<cache, store, now, sites, tables, wrapped>>

LoopDone_Never(cursor) == FALSE

\* if cursor == 0: break
LoopDone(cursor) == cursor = 0

AfterBatch_OneBatch(call) == Returned(call, call.result)

\* what follows the deletion of the last key of a list or batch
AfterBatch(call) ==
    IF call.scanning /\ ~LoopDone(call.cursor)
    THEN [call EXCEPT !.pc = "scan"]
    ELSE Returned(call, call.result)

\* cache_client.delete(key) for the next key to invalidate
InvDelete(c) ==
    LET call == calls[c]
        key == Head(call.pending)
    IN
    /\ call.pc = "delete"
    /\ \/ \* the backend cannot be reached
          /\ Set(c, OnInvalidationError(Log(call, Event("delete", key, "error", PyNone)),
                                        ConnectionError))
          /\ UNCHANGED store
       \/ \* a sync client in the async wrapper: the key is deleted, await raises
          /\ ~Awaitable(call.is_async)
          /\ store' = Without(key)
          /\ Set(c, OnInvalidationError(
                        Log(call, Event("delete", key, "TypeError", PyNone)),
                        AwaitTypeError))
       \/ /\ Awaitable(call.is_async)
          /\ store' = Without(key)
          /\ LET rest == Log([call EXCEPT !.pending = Tail(@)],
                             Event("delete", key, "ok", PyNone))
             IN  Set(c, IF Tail(call.pending) = <<>> THEN AfterBatch(rest) ELSE rest)
    /\ UNCHANGED <<cache, db, now, sites, tables, wrapped>>

\* cursor, keys = cache_client.scan(cursor, match=pattern, count=100)
InvScan(c) ==
    LET call == calls[c]
        pattern == call.op.prefix \o COLON \o call.op.key_pattern
        batch == ScanBatch(call.cursor, pattern)
        next == NextCursor(call.cursor)
    IN
    /\ call.pc = "scan"
    /\ \/ Set(c, OnInvalidationError(
                     Log(call, ScanEvent(pattern, "error", call.cursor, call.cursor, <<>>)),
                     ConnectionError))
       \/ /\ ~Awaitable(call.is_async)
          /\ Set(c, OnInvalidationError(
                        Log(call, ScanEvent(pattern, "TypeError", call.cursor, call.cursor, <<>>)),
                        AwaitTypeError))
       \/ /\ Awaitable(call.is_async)
          /\ \E order \in Orders(batch) :
                LET keys == [i \in 1..Cardinality(batch) |-> order[i]]
                    seen == Log([call EXCEPT !.cursor = next],
                                ScanEvent(pattern, "ok", call.cursor, next, keys))
                IN  IF keys # <<>>
                    THEN Set(c, [seen EXCEPT !.pc = "delete", !.pending = keys])
                    ELSE Set(c, AfterBatch(seen))
    /\ UNCHANGED <<cache, store, db, now, sites, tables, wrapped>>

-----------------------------------------------------------------------------
(* Specification: one call at a time *)

\* keys an entry can exist at before the service starts
SeedKeys ==
    {CachedKey(GetByUsername, a, <<>>) : a \in ArgShapes(GetByUsername)}
    \cup {CachedKey(UpdateUser, a, <<>>) : a \in ArgShapes(UpdateUser)}
    \cup {user_service \o COLON \o <<"all">>,
          book_service \o COLON \o <<"book", "_", "b1">>}

SeedTtl == 300

\* keys of the book service: three that match book_service:book_* and the
\* key get_book_with_categories derives, which does not
BookEntryKeys ==
    {book_service \o COLON \o <<"book", "_", id>> : id \in {"b1", "b2", "b34"}}

BookReadKey ==
    generate_cache_key(book_service,
        <<"get", "_", "book", "_", "with", "_", "categories">>,
        <<PySession("7f01"), PyStr(<<"b1">>)>>, <<>>)

\* a keyspace with entries of both services
Populated ==
    [k \in BookEntryKeys \cup {BookReadKey, user_service \o COLON \o <<"all">>} |->
        [val |-> <<"null">>, ttl |-> SeedTtl, at |-> 0, computed |-> 0]]

InitStores ==
    {<<>>, Populated}
        \cup {[k \in {key} |-> [val |-> b, ttl |-> SeedTtl, at |-> 0, computed |-> 0]] :
                    key \in SeedKeys, b \in SeedBytes}

Init ==
    /\ cache \in CacheKinds
    /\ store \in InitStores
    /\ db \in Results
    /\ now = 0
    /\ calls = [c \in Calls |-> Idle]
    /\ sites = <<>>
    /\ tables = <<>>
    /\ wrapped = <<>>

Step(c) ==
    \/ CachedStart(c)
    \/ CachedDirect(c)
    \/ CachedGet(c)
    \/ CachedExec(c)
    \/ CachedStore(c)
    \/ CachedFallback(c)
    \/ InvStart(c)
    \/ InvMutate(c)
    \/ InvDelete(c)
    \/ InvScan(c)
    \/ Finish(c)

Next == Step("c1")

Spec == Init /\ [][Next]_vars

(* Specification: invalidating calls against a reachable backend, each run  *)
(* to its end by the event loop                                            *)

ScanInit ==
    /\ Init
    /\ cache \in {"Redis", "AsyncRedis"}
    /\ store \in {<<>>, Populated}

ScanNext ==
    \/ InvStart("c1")
    \/ InvMutate("c1")
    \/ InvDelete("c1")
    \/ InvScan("c1")
    \/ Finish("c1")

ScanSpec == ScanInit /\ [][ScanNext]_vars /\ WF_vars(ScanNext)

-----------------------------------------------------------------------------
(* Specification: one call at a time, with the backend clock running       *)

\* the clock advances in steps of TickStep seconds up to MaxNow
TickStep == 200
MaxNow == 600

\* the backend no longer returns an entry once its expiry has passed
Expired(entry, t) == t >= entry.at + entry.ttl

Tick ==
    /\ now + TickStep <= MaxNow
    /\ now' = now + TickStep
    /\ store' = [k \in {x \in DOMAIN store : ~Expired(store[x], now + TickStep)} |->
                    store[k]]
    /\ UNCHANGED <<cache, db, calls, sites, tables, wrapped>>

TimedInit ==
    /\ Init
    /\ cache = "AsyncRedis"
    /\ store = <<>>

TimedNext == Tick \/ Step("c1")

TimedSpec == TimedInit /\ [][TimedNext]_vars

-----------------------------------------------------------------------------
(* Specification: the keys derived at two call sites of decorated reads    *)

base_service == <<"base", "_", "service">>

\* services/base.py: @cached(prefix="base_service", ttl=300) get_by_id
GetById ==
    [name |-> <<"get", "_", "by", "_", "id">>, deco |-> "cached",
     prefix |-> base_service, ttl |-> 300, key_pattern |-> <<>>, key_builder |-> FALSE]

\* services/base.py: @cached(prefix="base_service", ttl=300) get_all
GetAll ==
    [name |-> <<"get", "_", "all">>, deco |-> "cached",
     prefix |-> base_service, ttl |-> 300, key_pattern |-> <<>>, key_builder |-> FALSE]

\* services/book.py: @cached(prefix="book_service", ttl=600) get_books_with_categories
GetBooksWithCategories ==
    [name |-> <<"get", "_", "book", "s", "_", "with", "_", "categories">>,
     deco |-> "cached", prefix |-> book_service, ttl |-> 600, key_pattern |-> <<>>,
     key_builder |-> FALSE]

\* services/book.py: @cached(prefix="book_service", ttl=300) search_books
SearchBooks ==
    [name |-> <<"search", "_", "book", "s">>, deco |-> "cached",
     prefix |-> book_service, ttl |-> 300, key_pattern |-> <<>>, key_builder |-> FALSE]

\* the service classes (one per entity type) and the cached reads each has,
\* those inherited from BaseService included
Services == {"UserService", "BookService"}

Reads(svc) ==
    {GetById, GetAll}
        \cup (IF svc = "UserService" THEN {GetByUsername}
              ELSE {GetBooksWithCategories, SearchBooks})

\* the parameters after db, with their defaults
Required == [ty |-> "required", v |-> <<>>]

Params(op) ==
    IF op = GetBooksWithCategories
    THEN <<[name |-> <<"skip">>, default |-> PyInt("0")],
           [name |-> <<"limit">>, default |-> PyInt("100")]>>
    ELSE IF op = GetAll THEN <<>>
    ELSE IF op = GetById THEN <<[name |-> <<"id">>, default |-> Required]>>
    ELSE IF op = SearchBooks THEN <<[name |-> <<"params">>, default |-> Required]>>
    ELSE <<[name |-> <<"user", "name">>, default |-> Required]>>

\* the values a parameter is given at the call sites
ValuesOf(name) ==
    CASE name = <<"skip">> -> {PyInt("0"), PyInt("20")}
      [] name = <<"limit">> -> {PyInt("100"), PyInt("50")}
      [] name = <<"id">> -> {PyStr(<<"u1">>), PyStr(<<"b1">>)}
      [] name = <<"params">> -> {DuneParams}
      [] OTHER -> {PyStr(<<"alice">>), PyStr(<<Name123>>), PyStr(<<Name124>>)}

\* addresses of the db session objects
Addresses == {"7f01", "7f02"}

\* the positional arguments after db: values for a leading part of the
\* parameters; a required parameter is passed positionally
PosSeqs(op) ==
    LET ps == Params(op) IN
    {q \in UNION {[1..n -> UNION {ValuesOf(ps[i].name) : i \in 1..Len(ps)}] :
                     n \in 0..Len(ps)} :
        /\ \A i \in 1..Len(q) : q[i] \in ValuesOf(ps[i].name)
        /\ \A i \in 1..Len(ps) : ps[i].default = Required => i <= Len(q)}

\* the keyword arguments: any of the parameters not passed positionally, in
\* any order
KwSeqs(op, npos) ==
    LET ps == Params(op)
        items == {[k |-> ps[i].name, v |-> x] :
                     i \in (npos + 1)..Len(ps), x \in UNION {ValuesOf(ps[j].name) : j \in 1..Len(ps)}}
        ok == {it \in items : it.v \in ValuesOf(it.k)}
    IN  {<<>>} \cup {<<a>> : a \in ok}
               \cup {q \in {<<a, b>> : a \in ok, b \in ok} : q[1].k # q[2].k}

\* the forms of a call of op: (args, kwargs) as the wrapper receives them
CallForms(op) ==
    UNION {{[args |-> <<PySession(addr)>> \o pos, kwargs |-> kw] :
               kw \in KwSeqs(op, Len(pos))} :
           addr \in Addresses, pos \in PosSeqs(op)}

\* the value each parameter after db is bound to in the body of op
Bind(op, args, kwargs) ==
    LET ps == Params(op) IN
    [i \in 1..Len(ps) |->
        IF i + 1 <= Len(args) THEN args[i + 1]
        ELSE IF \E j \in 1..Len(kwargs) : kwargs[j].k = ps[i].name
        THEN kwargs[CHOOSE j \in 1..Len(kwargs) : kwargs[j].k = ps[i].name].v
        ELSE ps[i].default]

KeyInit ==
    /\ cache = "None"
    /\ store = <<>>
    /\ db = PyNone
    /\ now = 0
    /\ calls = [c \in Calls |-> Idle]
    /\ sites = <<>>
    /\ tables = <<>>
    /\ wrapped = <<>>

\* a service calls one of its cached reads: the wrapper derives the key
KeyDerive ==
    /\ Len(sites) < 2
    /\ \E svc \in Services :
       \E op \in Reads(svc) :
       \E form \in CallForms(op) :
          sites' = Append(sites,
                     [svc |-> svc, op |-> op, args |-> form.args, kwargs |-> form.kwargs,
                      key |-> CachedKey(op, form.args, form.kwargs)])
    /\ UNCHANGED <<cache, store, db, now, calls, tables, wrapped>>

\* both keys have been compared
KeyReset ==
    /\ Len(sites) = 2
    /\ sites' = <<>>
    /\ UNCHANGED <<cache, store, db, now, calls, tables, wrapped>>

KeyNext == KeyDerive \/ KeyReset

KeySpec == KeyInit /\ [][KeyNext]_vars

(* Specification: the interaction service and the rating aggregates of the *)
(* books, one operation at a time                                           *)

Books == {"b1", "b2"}
Users == {"u1", "u2"}

\* a book id no row has
NoBook == "b9"

\* InteractionType members the operations tell apart: RATE and any other
InteractionTypes == {"rate", "like"}

\* Optional[float] rating: None, or a value within ge=1, le=5
NoRating == [none |-> TRUE, v |-> 0]
Rating(n) == [none |-> FALSE, v |-> n]
RatingValues == {Rating(2), Rating(5)}

\* the fields of InteractionUpdate a request can set
UpdateFields == {"interaction_type", "rating"}

\* the requests InteractionUpdate admits: a field that is not set holds None
InteractionUpdates ==
    {u \in [fields : SUBSET UpdateFields,
            interaction_type : InteractionTypes \cup {"None"},
            rating : RatingValues \cup {NoRating}] :
        /\ ("interaction_type" \in u.fields) = (u.interaction_type # "None")
        /\ "rating" \notin u.fields => u.rating = NoRating}

\* ids the interaction table hands out
MaxInteractions == 2

RECURSIVE Gcd(_, _)
Gcd(a, b) == IF b = 0 THEN a ELSE Gcd(b, a % b)

\* the quotient total / count of two integers as a reduced fraction
Quotient(total, count) ==
    LET g == Gcd(total, count)
    IN  [num |-> total \div g, den |-> count \div g]

\* Book.average_rating = 0.0, Book.ratings_count = 0
NewBook == [ratings_count |-> 0, average_rating |-> [num |-> 0, den |-> 1]]

RECURSIVE SumOf(_, _)
SumOf(rows, ids) ==
    IF ids = {} THEN 0
    ELSE LET i == CHOOSE x \in ids : TRUE
         IN  rows[i].rating.v + SumOf(rows, ids \ {i})

\* BaseService.get_by_id on the interaction table finds a row
HasInteraction(t, id) == id \in DOMAIN t.interactions

\* BookService.update_book_ratings: recompute the aggregates of one book from
\* its interactions of type RATE with a rating
update_book_ratings(t, book_id) ==
    IF book_id \notin DOMAIN t.books THEN t
    ELSE LET ratings == {i \in DOMAIN t.interactions :
                            /\ t.interactions[i].book_id = book_id
                            /\ t.interactions[i].interaction_type = "rate"
                            /\ t.interactions[i].rating # NoRating}
             ratings_count == Cardinality(ratings)
         IN  [t EXCEPT !.books[book_id] =
                IF ratings # {}
                THEN [ratings_count |-> ratings_count,
                      average_rating |->
                          Quotient(SumOf(t.interactions, ratings), ratings_count)]
                ELSE [ratings_count |-> 0,
                      average_rating |-> [num |-> 0, den |-> 1]]]

\* the aggregates are recomputed after an update when the interaction is of
\* type RATE once the update is committed
RecomputeAfterUpdate(before, after) == after.interaction_type = "rate"

\* the aggregates are recomputed after a delete of a RATE interaction
RecomputeAfterDelete(result, was_rating) == result /\ was_rating

\* the aggregates are recomputed after a RATE interaction is created
RecomputeAfterCreate(interaction) == interaction.interaction_type = "rate"

RatingInit ==
    /\ cache = "None"
    /\ store = <<>>
    /\ db = PyNone
    /\ now = 0
    /\ calls = [c \in Calls |-> Idle]
    /\ sites = <<>>
    /\ wrapped = <<>>
    /\ tables = [books |-> [b \in Books |-> NewBook],
                 interactions |-> <<>>,
                 next_id |-> 1,
                 last |-> [op |-> "none", outcome |-> "none"]]

Done(t, op, outcome) == [t EXCEPT !.last = [op |-> op, outcome |-> outcome]]

create_interaction ==
    /\ tables.next_id <= MaxInteractions
    /\ \E user_id \in Users, book_id \in Books \cup {NoBook},
          ty \in InteractionTypes, rating \in RatingValues \cup {NoRating} :
          IF ty = "rate" /\ rating = NoRating
          THEN tables' = Done(tables, "create", "ValidationException")
          ELSE IF book_id \notin DOMAIN tables.books
          THEN tables' = Done(tables, "create", "ValidationException")
          ELSE LET interaction == [user_id |-> user_id, book_id |-> book_id,
                                   interaction_type |-> ty, rating |-> rating]
                   id == tables.next_id
                   committed ==
                       [tables EXCEPT
                          !.interactions =
                              [i \in DOMAIN tables.interactions \cup {id} |->
                                  IF i = id THEN interaction
                                  ELSE tables.interactions[i]],
                          !.next_id = id + 1]
               IN  tables' = Done(IF RecomputeAfterCreate(interaction)
                                  THEN update_book_ratings(committed, book_id)
                                  ELSE committed,
                                  "create", "returned")
    /\ UNCHANGED <<cache, store, db, now, calls, sites, wrapped>>

update_interaction ==
    /\ \E interaction_id \in 1..MaxInteractions, user_id \in Users,
          interaction_in \in InteractionUpdates :
          LET interaction == tables.interactions[interaction_id]
          IN  IF ~HasInteraction(tables, interaction_id)
              THEN tables' = Done(tables, "update", "None")
              ELSE IF interaction.user_id # user_id
              THEN tables' = Done(tables, "update", "ValidationException")
              ELSE IF /\ interaction_in.interaction_type = "rate"
                      /\ interaction_in.rating = NoRating
              THEN tables' = Done(tables, "update", "ValidationException")
              ELSE LET updated ==
                           [interaction EXCEPT
                              !.interaction_type =
                                  IF "interaction_type" \in interaction_in.fields
                                  THEN interaction_in.interaction_type ELSE @,
                              !.rating =
                                  IF "rating" \in interaction_in.fields
                                  THEN interaction_in.rating ELSE @]
                       committed ==
                           [tables EXCEPT !.interactions[interaction_id] = updated]
                   IN  tables' = Done(IF RecomputeAfterUpdate(interaction, updated)
                                      THEN update_book_ratings(committed,
                                                               updated.book_id)
                                      ELSE committed,
                                      "update", "returned")
    /\ UNCHANGED <<cache, store, db, now, calls, sites, wrapped>>

delete_interaction ==
    /\ \E interaction_id \in 1..MaxInteractions, user_id \in Users :
          LET interaction == tables.interactions[interaction_id]
          IN  IF ~HasInteraction(tables, interaction_id)
              THEN tables' = Done(tables, "delete", "False")
              ELSE IF interaction.user_id # user_id
              THEN tables' = Done(tables, "delete", "ValidationException")
              ELSE LET book_id == interaction.book_id
                       was_rating == interaction.interaction_type = "rate"
                       deleted ==
                           [tables EXCEPT
                              !.interactions =
                                  [i \in DOMAIN tables.interactions \ {interaction_id}
                                      |-> tables.interactions[i]]]
                   IN  tables' = Done(IF RecomputeAfterDelete(TRUE, was_rating)
                                      THEN update_book_ratings(deleted, book_id)
                                      ELSE deleted,
                                      "delete", "True")
    /\ UNCHANGED <<cache, store, db, now, calls, sites, wrapped>>

RatingNext == create_interaction \/ update_interaction \/ delete_interaction

RatingSpec == RatingInit /\ [][RatingNext]_vars

-----------------------------------------------------------------------------

(* Specification: a call of an operation decorated with db_exception_handler *)

\* what the decorator is applied to: a coroutine function (async def), a
\* plain function, or a callable object that defines __await__
FuncKinds == {"async def", "def", "awaitable"}

\* callable(getattr(func, "__await__", None)): a function object, coroutine
\* function or not, has no __await__ attribute
WrapperFor(func) ==
    IF func = "awaitable" THEN "async_wrapper" ELSE "sync_wrapper"

\* exception classes the body of an operation raises: the class name in
\* lower case, cut into atoms, and the classes it is an instance of
DbExc(name, bases, message) == [name |-> name, bases |-> bases, message |-> message]

NoDbExc == DbExc(<<>>, {}, <<>>)

\* DatabaseException and its subclasses, SQLAlchemy errors, and two classes
\* that are neither: one without and one with a database term in its name
BodyRaises ==
    {DbExc(<<"database", "exception">>, {"DatabaseException"}, <<"failed">>),
     DbExc(<<"connection", "exception">>,
           {"DatabaseException", "ConnectionException"}, <<"failed">>),
     DbExc(<<"integrity", "exception">>,
           {"DatabaseException", "IntegrityException"}, <<"failed">>),
     DbExc(<<"query", "exception">>,
           {"DatabaseException", "QueryException"}, <<"row ", "not found">>),
     DbExc(<<"no", "result", "found">>, {"SQLAlchemyError", "NoResultFound"}, <<"failed">>),
     DbExc(<<"integrity", "error">>, {"SQLAlchemyError", "IntegrityError"}, <<"failed">>),
     DbExc(<<"operational", "error">>, {"SQLAlchemyError", "OperationalError"}, <<"failed">>),
     DbExc(<<"data", "error">>, {"SQLAlchemyError"}, <<"failed">>),
     DbExc(<<"validation", "exception">>, {}, <<"failed">>),
     DbExc(<<"my", "sql", "error">>, {}, <<"failed">>)}

\* terms that make an exception class database-related by its name
NameTerms == {"db", "sql", "database", "query"}

\* the except clauses of the wrappers, in order: the DatabaseException the
\* raised exception is handled as, or NoDbExc when it is re-raised
Convert(e) ==
    IF "DatabaseException" \in e.bases THEN e
    ELSE IF "NoResultFound" \in e.bases
    THEN DbExc(<<"query", "exception">>, {"DatabaseException", "QueryException"},
               <<"Resource ", "not found", " in database">>)
    ELSE IF "IntegrityError" \in e.bases
    THEN DbExc(<<"integrity", "exception">>,
               {"DatabaseException", "IntegrityException"},
               <<"Database integrity error: possible duplicate or constraint violation">>)
    ELSE IF "OperationalError" \in e.bases
    THEN DbExc(<<"connection", "exception">>,
               {"DatabaseException", "ConnectionException"},
               <<"Database connection error">>)
    ELSE IF "SQLAlchemyError" \in e.bases
    THEN DbExc(<<"query", "exception">>, {"DatabaseException", "QueryException"},
               <<"Database error: ">> \o e.message)
    ELSE IF \E i \in 1..Len(e.name) : e.name[i] \in NameTerms
    THEN DbExc(<<"database", "exception">>, {"DatabaseException"},
               <<"Database error: ">> \o e.message)
    ELSE NoDbExc

StatusCode(exc) ==
    IF "ConnectionException" \in exc.bases THEN 503
    ELSE IF "IntegrityException" \in exc.bases THEN 409
    ELSE IF "QueryException" \in exc.bases /\ Contains(exc.message, "not found") THEN 404
    ELSE 500

\* handle_db_exception: a JSONResponse when a request is at hand, else a dict
handle_db_exception(exc, request, include_traceback, original) ==
    [kind |-> IF request THEN "JSONResponse" ELSE "dict",
     status_code |-> StatusCode(exc),
     error |-> exc.name,
     message |-> exc.message,
     traceback |-> include_traceback /\ original]

Unwrapped ==
    [pc |-> "idle", func |-> "def", wrapper |-> "sync_wrapper", request |-> FALSE,
     include_traceback |-> FALSE, raised |-> NoDbExc, outcome |-> "none",
     exc |-> NoDbExc,
     response |-> [kind |-> "none", status_code |-> 0, error |-> <<>>,
                   message |-> <<>>, traceback |-> FALSE]]

\* the try block of a wrapper around an execution of the body that ends as o
Try(w, o) ==
    IF o = NoDbExc
    THEN [w EXCEPT !.pc = "done", !.outcome = "returned"]
    ELSE LET custom_exc == Convert(o)
         IN  IF custom_exc = NoDbExc
             THEN [w EXCEPT !.pc = "done", !.raised = o, !.outcome = "raised", !.exc = o]
             ELSE [w EXCEPT !.pc = "done", !.raised = o, !.outcome = "response",
                            !.response =
                                handle_db_exception(custom_exc, w.request,
                                                    w.include_traceback,
                                                    custom_exc # o)]

DbInit ==
    /\ cache = "None"
    /\ store = <<>>
    /\ db = PyNone
    /\ now = 0
    /\ calls = [c \in Calls |-> Idle]
    /\ sites = <<>>
    /\ tables = <<>>
    /\ wrapped = Unwrapped

\* the decorator is applied and the decorated operation is called
Decorate ==
    /\ wrapped.pc = "idle"
    /\ \E func \in FuncKinds, request \in BOOLEAN, include_traceback \in BOOLEAN :
          wrapped' = [Unwrapped EXCEPT !.pc = "called", !.func = func,
                                       !.wrapper = WrapperFor(func),
                                       !.request = request,
                                       !.include_traceback = include_traceback]
    /\ UNCHANGED <<cache, store, db, now, calls, sites, tables>>

\* async_wrapper: the body runs inside the try block, under await
DbAsyncWrapper ==
    /\ wrapped.pc = "called"
    /\ wrapped.wrapper = "async_wrapper"
    /\ \E o \in BodyRaises \cup {NoDbExc} : wrapped' = Try(wrapped, o)
    /\ UNCHANGED <<cache, store, db, now, calls, sites, tables>>

\* sync_wrapper: func(...) runs the body of a plain function inside the try
\* block; for a coroutine function it only creates the coroutine object, which
\* the wrapper returns
DbSyncWrapper ==
    /\ wrapped.pc = "called"
    /\ wrapped.wrapper = "sync_wrapper"
    /\ IF wrapped.func = "async def"
       THEN wrapped' = [wrapped EXCEPT !.pc = "coroutine"]
       ELSE \E o \in BodyRaises \cup {NoDbExc} : wrapped' = Try(wrapped, o)
    /\ UNCHANGED <<cache, store, db, now, calls, sites, tables>>

\* the caller awaits the coroutine object: the body runs outside the wrapper
DbAwait ==
    /\ wrapped.pc = "coroutine"
    /\ \E o \in BodyRaises \cup {NoDbExc} :
          wrapped' = IF o = NoDbExc
                     THEN [wrapped EXCEPT !.pc = "done", !.outcome = "returned"]
                     ELSE [wrapped EXCEPT !.pc = "done", !.raised = o,
                                          !.outcome = "raised", !.exc = o]
    /\ UNCHANGED <<cache, store, db, now, calls, sites, tables>>

DbNext == Decorate \/ DbAsyncWrapper \/ DbSyncWrapper \/ DbAwait

DbSpec == DbInit /\ [][DbNext]_vars

-----------------------------------------------------------------------------

(* Specification: two calls in flight on one key. Both wrappers are         *)
(* coroutines on one event loop: each await is a point where the other     *)
(* call can run.                                                            *)

\* a call of the read whose key the custom resolver gives
RaceRead(c) ==
    /\ CachedStart(c)
    /\ calls'[c].op = GetWithBuilder
    /\ calls'[c].is_async
    /\ calls'[c].pc = "get"

\* a call of the mutation whose resolver names the keys to invalidate
RaceMutate(c) ==
    /\ InvStart(c)
    /\ calls'[c].op = UpdateWithBuilder
    /\ calls'[c].is_async

RaceInit ==
    /\ Init
    /\ cache = "AsyncRedis"
    /\ store = <<>>

RaceNext ==
    \/ RaceRead("c1")
    \/ RaceRead("c2")
    \/ RaceMutate("c2")
    \/ CachedGet("c1")
    \/ CachedGet("c2")
    \/ CachedExec("c1")
    \/ CachedExec("c2")
    \/ CachedStore("c1")
    \/ CachedStore("c2")
    \/ CachedFallback("c1")
    \/ CachedFallback("c2")
    \/ InvMutate("c2")
    \/ InvDelete("c2")
    \/ Finish("c1")
    \/ Finish("c2")

RaceSpec == RaceInit /\ [][RaceNext]_vars

-----------------------------------------------------------------------------

TypeOK ==
    /\ cache \in CacheKinds
    /\ now \in Nat
    /\ \A c \in Calls : calls[c].pc \in
          {"idle", "direct", "get", "exec", "store", "fallback", "mutate", "delete",
           "scan", "done"}

-----------------------------------------------------------------------------
(* Properties *)

IsCached(call) == call.pc # "idle" /\ call.op.deco = "cached"
IsInvalidate(call) == call.pc # "idle" /\ call.op.deco = "invalidate_cache"

\* positions of the trace with event ev
At(call, ev) == {i \in 1..Len(call.trace) : call.trace[i].ev = ev}

\* the call has an event ev with status st
Did(call, ev, st) == \E i \in At(call, ev) : call.trace[i].st = st

\* the outcome of the call is the outcome of the execution e of f
Passes(call, e) ==
    IF e.st = "return"
    THEN call.outcome = "return" /\ call.retval = e.val
    ELSE call.outcome = "raise" /\ call.exc = e.exc

\* C1: a call of the cached wrapper whose backend read returns a non-empty
\* value that deserializes ends at once: it returns the deserialized value of
\* the entry, the wrapped operation is not executed and nothing is written.
C1_HitSkipsF ==
    \A c \in Calls :
        LET call == calls[c] IN
        (IsCached(call) /\ Did(call, "get", "hit")) =>
            /\ call.pc = "done"
            /\ call.outcome = "return"
            /\ HasKey(call.key)
            /\ JsonLoads(Decode(store[call.key].val).text).ok
            /\ call.retval = JsonLoads(Decode(store[call.key].val).text).val
            /\ call.fcount = 0
            /\ At(call, "f") = {} /\ At(call, "setex") = {}
            /\ store = call.store0

\* a hit that returns a value an earlier call of the wrapper has written
C1_Witness ==
    /\ calls["c1"].pc = "done"
    /\ IsCached(calls["c1"])
    /\ Did(calls["c1"], "get", "hit")
    /\ calls["c1"].retval = PyEmptyList

\* the call found no entry at its key: none was there when it was entered,
\* and the backend read succeeded
MissedFresh(call) ==
    /\ IsCached(call)
    /\ call.key \notin DOMAIN call.store0
    /\ Did(call, "get", "miss")

BackendFailed(call) ==
    \E i \in 1..Len(call.trace) :
        call.trace[i].ev \in {"get", "setex", "delete", "scan"}
            /\ call.trace[i].st \in {"error", "TypeError"}

MissedDone(call) == IsCached(call) /\ call.pc = "done" /\ Did(call, "get", "miss")

\* the first execution of f in the call (the one after the miss)
FirstF(call) ==
    call.trace[CHOOSE i \in At(call, "f") : \A j \in At(call, "f") : i <= j]

\* the call passed the value val to a backend write
Wrote(call, val) == \E i \in At(call, "setex") : call.trace[i].val = val

\* when f returns None the wrapper returns None, issues no write and adds no entry
NullNotCached(call) ==
    (call.pc = "done" /\ At(call, "f") # {}
        /\ \A i \in At(call, "f") : call.trace[i].st = "return" /\ call.trace[i].val = PyNone) =>
        /\ call.outcome = "return" /\ call.retval = PyNone
        /\ At(call, "setex") = {}
        /\ call.key \notin DOMAIN call.store0 => ~HasKey(call.key)

C3_WitnessNull ==
    /\ MissedDone(calls["c1"])
    /\ calls["c1"].fcount = 1
    /\ calls["c1"].retval = PyNone
    /\ ~HasKey(calls["c1"].key)

\* C4: when the backend read raises because the backend cannot be reached,
\* the call of the cached wrapper still executes f, once, and its outcome is
\* that of f: f's result is returned and no cache error reaches the caller.
C4_Degradation ==
    \A c \in Calls :
        LET call == calls[c] IN
        (IsCached(call) /\ call.pc = "done" /\ Did(call, "get", "error")) =>
            /\ call.fcount = 1
            /\ At(call, "setex") = {}
            /\ Passes(call, call.trace[Len(call.trace)])
            /\ call.exc \notin {ConnectionError, AwaitTypeError}
            /\ store = call.store0

\* the read failed and the caller got the row
C4_Witness ==
    /\ calls["c1"].pc = "done"
    /\ IsCached(calls["c1"])
    /\ Did(calls["c1"], "get", "error")
    /\ calls["c1"].outcome = "return"
    /\ calls["c1"].retval = PyUser

\* C5 as stated: a domain validation error raised by the wrapped operation
\* leaves the cached and the invalidate_cache wrapper as that same error.
C5_DomainErrorsPropagate ==
    \A c \in Calls :
        LET call == calls[c] IN
        call.pc = "done" =>
            \A i \in At(call, "f") :
                call.trace[i].st = "raise" =>
                    call.outcome = "raise" /\ call.exc = call.trace[i].exc

\* C6 as stated: when f has returned a non-null result r and the
\* serialization or the backend store that follows fails, the call of the
\* cached wrapper does not raise and returns r.
C6_FailedWriteReturnsResult ==
    \A c \in Calls :
        LET call == calls[c] IN
        (IsCached(call) /\ call.pc = "done") =>
            \A i \in At(call, "serialize") \cup At(call, "setex") :
                call.trace[i].st \in {"raise", "error"} =>
                    call.outcome = "return" /\ call.retval = call.trace[i].val

\* the receiver has no cache handle: no attribute, None, or no Redis client
NoHandle == cache \in {"absent", "None", "RedisClient"}

\* C7: when the receiver has no cache handle, a call of either wrapper
\* executes f exactly once, its outcome is the outcome of f, and it issues no
\* backend operation: the keyspace stays as it was.
C7_NoBackend ==
    \A c \in Calls :
        LET call == calls[c] IN
        NoHandle =>
            /\ \A i \in 1..Len(call.trace) : call.trace[i].ev = "f"
            /\ store = call.store0 \/ call.pc = "idle"
            /\ call.pc = "done" =>
                  /\ call.fcount = 1
                  /\ Len(call.trace) = 1
                  /\ Passes(call, call.trace[1])

\* a mutation on a receiver whose cache attribute is no Redis client
C7_Witness ==
    /\ cache = "RedisClient"
    /\ calls["c1"].pc = "done"
    /\ IsInvalidate(calls["c1"])
    /\ calls["c1"].outcome = "return"
    /\ calls["c1"].retval = PyUser
    /\ store # <<>>

\* a read on a receiver whose cache attribute is None
C7_WitnessRead ==
    /\ cache = "None"
    /\ calls["c1"].pc = "done"
    /\ IsCached(calls["c1"])
    /\ calls["c1"].retval = PyZero

\* C8: in a call of the invalidate_cache wrapper every delete, scan and
\* key_builder call comes after f has returned; f is executed once; if f
\* raises, no delete or scan is issued and the keyspace stays as it was.
C8_MutationFirst ==
    \A c \in Calls :
        LET call == calls[c] IN
        IsInvalidate(call) =>
            /\ \A i \in 1..Len(call.trace) :
                  call.trace[i].ev # "f" =>
                      /\ i > 1
                      /\ call.trace[1].ev = "f" /\ call.trace[1].st = "return"
            /\ call.fcount <= 1
            /\ Did(call, "f", "raise") =>
                  /\ Len(call.trace) = 1
                  /\ call.pc = "done" /\ call.outcome = "raise"
                  /\ store = call.store0

\* a wildcard invalidation that scanned and deleted after f returned
C8_Witness ==
    /\ calls["c1"].pc = "done"
    /\ IsInvalidate(calls["c1"])
    /\ Did(calls["c1"], "scan", "ok")
    /\ Did(calls["c1"], "delete", "ok")
    /\ calls["c1"].trace[1].ev = "f"

\* a mutation that raised: nothing was invalidated
C8_WitnessRaise ==
    /\ calls["c1"].pc = "done"
    /\ IsInvalidate(calls["c1"])
    /\ cache = "AsyncRedis"
    /\ calls["c1"].is_async
    /\ calls["c1"].outcome = "raise"
    /\ store # <<>>

\* C9: whenever f returns v, the call of the invalidate_cache wrapper returns
\* exactly v and raises nothing, also when the key_builder, a scan or a
\* delete fails; what f committed is still in the database.
C9_ResultPassthrough ==
    \A c \in Calls :
        LET call == calls[c] IN
        (IsInvalidate(call) /\ Did(call, "f", "return")) =>
            /\ call.trace[1].val # PyNone => db = call.trace[1].val
            /\ call.pc = "done" =>
                  /\ call.outcome = "return"
                  /\ call.retval = call.trace[1].val
                  /\ call.exc = NoExc

\* a mutation whose invalidation failed at the backend
C9_Witness ==
    /\ calls["c1"].pc = "done"
    /\ IsInvalidate(calls["c1"])
    /\ BackendFailed(calls["c1"])
    /\ calls["c1"].retval = PyUser
    /\ db = PyUser

\* a mutation whose key_builder raised
C9_WitnessBuilder ==
    /\ calls["c1"].pc = "done"
    /\ Did(calls["c1"], "key_builder", "raise")
    /\ IsInvalidate(calls["c1"])
    /\ calls["c1"].retval = PyTuple

\* the keyspaces s and t agree outside the key k
SameExcept(s, t, k) ==
    /\ DOMAIN s \ {k} = DOMAIN t \ {k}
    /\ \A x \in DOMAIN s \ {k} : s[x] = t[x]

\* C10: with no pattern and no key_builder, a call of the invalidate_cache
\* wrapper in which f returned issues exactly one delete and no scan; the key
\* is the one the cached wrapper derives for the same prefix, operation name
\* and arguments; every other entry, those of differently named reads
\* included, stays as it was.
C10_DefaultScope ==
    \A c \in Calls :
        LET call == calls[c]
            k == CachedKey(call.op, call.args, call.kwargs)
        IN
        (/\ IsInvalidate(call) /\ call.pc = "done"
         /\ ~call.op.key_builder /\ call.op.key_pattern = <<>>
         /\ CacheAvailable(call.is_async) /\ call.outcome = "return") =>
            /\ Len(call.trace) = 2
            /\ call.trace[2].ev = "delete" /\ call.trace[2].key = k
            /\ SameExcept(store, call.store0, k)
            /\ call.trace[2].st # "error" => ~HasKey(k)
            /\ call.trace[2].st = "error" => store = call.store0

\* update_user has run: the entry at its own key is gone, the entry that
\* get_by_username wrote is still there
C10_Witness ==
    LET call == calls["c1"]
        read == CachedKey(GetByUsername, <<PySession("7f01"), PyStr(<<"alice">>)>>, <<>>)
    IN
    /\ call.pc = "done" /\ call.op = UpdateUser
    /\ Did(call, "delete", "ok")
    /\ call.trace[2].key \in DOMAIN call.store0
    /\ ~HasKey(call.trace[2].key)
    /\ HasKey(read) /\ store[read].val = <<"0">>

\* a finished call of the invalidate_cache wrapper that took the wildcard
\* branch and in which no backend operation failed
WildcardDone(call) ==
    /\ IsInvalidate(call) /\ call.pc = "done"
    /\ ~call.op.key_builder /\ Contains(call.op.key_pattern, "*")
    /\ CacheAvailable(call.is_async) /\ Did(call, "f", "return")
    /\ ~BackendFailed(call)

InWildcard(call) ==
    /\ IsInvalidate(call) /\ ~call.op.key_builder
    /\ Contains(call.op.key_pattern, "*")

\* the scan at position i of the trace is followed by the deletes of the keys
\* it returned, in the order of the reply, as far as the trace goes
BatchDeleted(call, i) ==
    \A k \in 1..Len(call.trace[i].keys) :
        i + k <= Len(call.trace) =>
            /\ call.trace[i + k].ev = "delete"
            /\ call.trace[i + k].key = call.trace[i].keys[k]

\* cursor protocol of the wildcard loop, read off the trace of a call
ScanProtocol(call) ==
    LET scans == At(call, "scan") IN
    /\ \A i \in scans :
          \* the first scan gets cursor 0
          /\ (\A j \in scans : i <= j) => call.trace[i].cur = 0
          /\ BatchDeleted(call, i)
          /\ \A j \in scans :
                (i < j /\ \A m \in scans : ~(i < m /\ m < j)) =>
                    \* a further scan follows only a scan that returned a cursor
                    \* other than 0, after all the keys of its batch were
                    \* deleted, and it is given the cursor that scan returned
                    /\ call.trace[i].st = "ok"
                    /\ call.trace[i].nxt # 0
                    /\ call.trace[j].cur = call.trace[i].nxt
                    /\ j = i + Len(call.trace[i].keys) + 1
    /\ (call.pc = "done" /\ scans # {} /\ ~BackendFailed(call)) =>
          \* the loop ends only after a scan that returned cursor 0
          \E i \in scans : (\A j \in scans : j <= i) /\ call.trace[i].nxt = 0

\* C12: the wildcard loop starts with cursor 0, gives each scan the cursor
\* the scan before returned, deletes every key of a batch before the next
\* scan and stops exactly when a scan returns cursor 0; and a call that has
\* entered the loop ends, the backend's scan returning cursor 0 eventually.
C12_ScanTerminates ==
    /\ [](\A c \in Calls : InWildcard(calls[c]) => ScanProtocol(calls[c]))
    /\ \A c \in Calls : (calls[c].pc = "scan") ~> (calls[c].pc = "done")

\* a loop of two scans: the first returned a batch of two keys and cursor 1,
\* the second cursor 0
C12_Witness ==
    LET call == calls["c1"] IN
    /\ InWildcard(call) /\ call.pc = "done" /\ ~BackendFailed(call)
    /\ Cardinality(At(call, "scan")) = 2
    /\ call.trace[2].ev = "scan" /\ Len(call.trace[2].keys) = 2
    /\ call.trace[2].nxt # 0
    /\ call.trace[Len(call.trace) - 1].ev = "scan"
    /\ call.trace[Len(call.trace) - 1].nxt = 0

\* the call is in the key_builder branch of the invalidate_cache wrapper
InBuilder(call) ==
    /\ IsInvalidate(call) /\ call.op.key_builder
    /\ CacheAvailable(call.is_async) /\ Did(call, "f", "return")

\* the keyspace s without the keys of the sequence q
Minus(s, q) == [k \in DOMAIN s \ {q[i] : i \in 1..Len(q)} |-> s[k]]

\* C13: with a key_builder, the invalidate_cache wrapper calls it after f
\* with f's result, then issues deletes for exactly the keys it returned, a
\* returned string counting as one key; it issues no scan although the
\* decorator also has a pattern, and keys matching the pattern stay.
C13_CustomResolver ==
    \A c \in Calls :
        LET call == calls[c]
            ret == call.trace[2].ret
            keys == IF ret.ty = "str" THEN <<ret.v>> ELSE ret.items
        IN
        InBuilder(call) =>
            /\ call.trace[1].ev = "f"
            /\ call.trace[2].ev = "key_builder"
            /\ call.trace[2].val = call.trace[1].val
            /\ At(call, "scan") = {}
            /\ \A i \in 3..Len(call.trace) : call.trace[i].ev = "delete"
            /\ (call.trace[2].st = "return") =>
                  /\ \A i \in 3..Len(call.trace) :
                        i - 2 <= Len(keys) /\ call.trace[i].key = keys[i - 2]
                  /\ (call.pc = "done" /\ ~BackendFailed(call)) =>
                        /\ Len(call.trace) = 2 + Len(keys)
                        /\ store = Minus(call.store0, keys)

\* the key_builder returned one key as a string: that entry, written by the
\* read with the key_builder, is gone after exactly one delete
C13_Witness ==
    LET call == calls["c1"] IN
    /\ InBuilder(call) /\ call.pc = "done"
    /\ call.trace[2].st = "return" /\ call.trace[2].ret = PyStr(CustomKey)
    /\ Len(call.trace) = 3 /\ call.trace[3].st = "ok"
    /\ CustomKey \in DOMAIN call.store0
    /\ ~HasKey(CustomKey)

\* a finished call of the invalidate_cache wrapper that took the branch of a
\* pattern without wildcard
LiteralDone(call) ==
    /\ IsInvalidate(call) /\ call.pc = "done"
    /\ ~call.op.key_builder
    /\ call.op.key_pattern # <<>> /\ ~Contains(call.op.key_pattern, "*")
    /\ CacheAvailable(call.is_async) /\ Did(call, "f", "return")

\* C14: with a non-empty pattern without '*' and no key_builder, a call of
\* the invalidate_cache wrapper issues exactly one delete, of the key
\* prefix:pattern, and no scan, whatever its arguments; no other entry changes.
C14_LiteralPattern ==
    \A c \in Calls :
        LET call == calls[c]
            k == call.op.prefix \o COLON \o call.op.key_pattern
        IN
        LiteralDone(call) =>
            /\ Len(call.trace) = 2
            /\ call.trace[2].ev = "delete" /\ call.trace[2].key = k
            /\ SameExcept(store, call.store0, k)
            /\ call.trace[2].st # "error" => ~HasKey(k)

\* the mutation with the pattern "all", called for the user u1, has deleted
\* the entry at user_service:all
C14_Witness ==
    LET call == calls["c1"] IN
    /\ LiteralDone(call) /\ call.op = UpdateWithLiteral
    /\ call.args[2] = PyStr(<<"u1">>)
    /\ call.trace[2].st = "ok"
    /\ user_service \o COLON \o <<"all">> \in DOMAIN call.store0
    /\ ~HasKey(user_service \o COLON \o <<"all">>)

\* a finished call of the cached wrapper on a receiver with a cache client
CachedDone(call) ==
    IsCached(call) /\ call.pc = "done" /\ CacheAvailable(call.is_async)

\* one backend read, at most one backend write, and every write comes after
\* an execution of f that returned the non-null value written
OneReadOneWrite(call) ==
    /\ Cardinality(At(call, "get")) = 1
    /\ Cardinality(At(call, "setex")) <= 1
    /\ \A i \in At(call, "setex") :
          \E j \in At(call, "f") :
              /\ j < i
              /\ call.trace[j].st = "return"
              /\ call.trace[j].val # PyNone
              /\ call.trace[j].val = call.trace[i].val

KwSet(site) == {site.kwargs[i] : i \in 1..Len(site.kwargs)}

\* C16: for a fixed prefix, operation name, positional arguments and set of
\* keyword name/value pairs, generate_cache_key returns the same key whatever
\* the order of the keyword arguments at the call site.
C16_KeywordOrder ==
    \A i, j \in 1..Len(sites) :
        (/\ sites[i].op = sites[j].op
         /\ sites[i].args = sites[j].args
         /\ KwSet(sites[i]) = KwSet(sites[j])) =>
            sites[i].key = sites[j].key

\* skip and limit given by keyword in the two orders: one key, with limit
\* before skip
C16_Witness ==
    /\ Len(sites) = 2
    /\ sites[1].kwargs = <<[k |-> <<"skip">>, v |-> PyInt("20")],
                           [k |-> <<"limit">>, v |-> PyInt("50")]>>
    /\ sites[2].kwargs = <<[k |-> <<"limit">>, v |-> PyInt("50")],
                           [k |-> <<"skip">>, v |-> PyInt("20")]>>
    /\ sites[1].args = sites[2].args
    /\ sites[1].key = sites[2].key
    /\ SubSeq(sites[1].key, Len(sites[1].key) - 6, Len(sites[1].key))
          = <<"limit", ":", "50", ":", "skip", ":", "20">>

\* C17 as stated: two calls of the same decorated operation that bind equal
\* values to the same parameters derive the same key, also when one passes a
\* parameter positionally and the other by keyword, or one omits a defaulted
\* parameter and the other passes the default.
C17_LogicallyEqualArgs ==
    \A i, j \in 1..Len(sites) :
        (/\ sites[i].op = sites[j].op
         /\ sites[i].args[1] = sites[j].args[1]
         /\ Bind(sites[i].op, sites[i].args, sites[i].kwargs)
               = Bind(sites[j].op, sites[j].args, sites[j].kwargs)) =>
            sites[i].key = sites[j].key

\* C18: when the colon-joined key has more than 200 characters,
\* generate_cache_key returns prefix:operation:hash: followed by the 32
\* characters of the MD5 digest of the joined key; when it has 200 characters
\* or fewer, it returns the joined key.
C18_KeyLength ==
    \A i \in 1..Len(sites) :
        LET site == sites[i]
            joined == KeyBase(site.op.prefix, site.op.name, site.args, site.kwargs)
            head == site.op.prefix \o COLON \o site.op.name \o COLON \o <<"hash">> \o COLON
        IN  IF StrLen(joined) > 200
            THEN /\ Len(site.key) = Len(head) + 1
                 /\ SubSeq(site.key, 1, Len(head)) = head
                 /\ Len(site.key[Len(site.key)]) = 32
                 /\ <<site.key[Len(site.key)]>> = Md5Hex(joined)
            ELSE site.key = joined

\* a joined key of 201 characters is replaced by the hashed form, one of 200
\* characters is kept
C18_Witness ==
    /\ Len(sites) = 2
    /\ sites[1].op = GetByUsername /\ sites[1].args[2] = PyStr(<<Name124>>)
    /\ StrLen(KeyBase(user_service, sites[1].op.name, sites[1].args, <<>>)) = 201
    /\ sites[1].key[Len(sites[1].key) - 2] = "hash"
    /\ sites[2].op = GetByUsername /\ sites[2].args[2] = PyStr(<<Name123>>)
    /\ StrLen(sites[2].key) = 200

\* C20 as stated: the cached reads of two services of different entity
\* types never derive the same key, the inherited get_by_id and get_all
\* included.
C20_EntityUniquePrefixes ==
    \A i, j \in 1..Len(sites) :
        sites[i].svc # sites[j].svc => sites[i].key # sites[j].key

\* the call returned the value of an entry of the backend; t is the time of
\* the read
IsServed(call) == IsCached(call) /\ Did(call, "get", "hit")

HitTime(call) == call.trace[CHOOSE i \in At(call, "get") : TRUE].t

\* every entry a call of the cached wrapper has written, while it is in the
\* backend, carries the ttl of the decorator, and the backend holds no entry
\* whose expiry has passed
WritesCarryTtl ==
    /\ \A c \in Calls :
          LET call == calls[c] IN
          \A i \in At(call, "setex") :
              (/\ IsCached(call) /\ call.trace[i].st = "ok"
               /\ HasKey(call.key) /\ store[call.key].at = call.trace[i].t) =>
                  store[call.key].ttl = call.op.ttl
    /\ \A k \in DOMAIN store : now < store[k].at + store[k].ttl

\* C19 as stated: every entry the cached wrapper writes expires after ttl, no
\* hit returns an entry written more than ttl seconds earlier, and so a value
\* served from the cache was computed by f at most ttl seconds before.
C19_Original ==
    /\ WritesCarryTtl
    /\ \A c \in Calls :
          LET call == calls[c] IN
          IsServed(call) =>
              /\ HitTime(call) - call.served.at <= call.served.ttl
              /\ HitTime(call) - call.served.computed <= call.served.ttl

\* C19 amended: every entry the cached wrapper writes expires after ttl, and
\* no hit returns an entry written ttl seconds or more earlier; the value
\* served was computed before the write, at most ttl seconds plus the time
\* between the execution of f and the write before the hit.
C19_TtlBoundedStaleness ==
    /\ WritesCarryTtl
    /\ \A c \in Calls :
          LET call == calls[c] IN
          IsServed(call) =>
              /\ HitTime(call) - call.served.at < call.served.ttl
              /\ call.served.computed <= call.served.at
              /\ HitTime(call) - call.served.computed
                    < call.served.ttl + (call.served.at - call.served.computed)

\* a hit on an entry that a call of the wrapper wrote one clock step before
\* with the ttl of 300 seconds of get_by_username
C19_Witness ==
    LET call == calls["c1"] IN
    /\ IsServed(call) /\ call.pc = "done" /\ call.op = GetByUsername
    /\ call.served.at > 0 /\ call.served.ttl = 300
    /\ HitTime(call) > call.served.at

\* interactions of book b that count as ratings
RatedRows(b) ==
    {i \in DOMAIN tables.interactions :
        /\ tables.interactions[i].book_id = b
        /\ tables.interactions[i].interaction_type = "rate"
        /\ tables.interactions[i].rating # NoRating}

\* C21: between interaction operations, every book's ratings_count is the
\* number of its interactions of type RATE with a non-null rating, and its
\* average_rating is the mean of those ratings (0 when there are none).
C21_RatingAggregates ==
    \A b \in Books :
        LET n == Cardinality(RatedRows(b))
            book == tables.books[b]
        IN  /\ book.ratings_count = n
            /\ book.average_rating.num * (IF n = 0 THEN 1 ELSE n)
                 = SumOf(tables.interactions, RatedRows(b)) * book.average_rating.den

\* C22: a database exception (a SQLAlchemy error or a DatabaseException)
\* raised while an async method decorated with db_exception_handler executes
\* is returned to the caller as an error response, never propagated.
C22_DbExceptionConverted ==
    (/\ wrapped.pc = "done"
     /\ wrapped.func = "async def"
     /\ wrapped.raised.bases \cap {"DatabaseException", "SQLAlchemyError"} # {}) =>
        /\ wrapped.outcome = "response"
        /\ wrapped.response.kind \in {"dict", "JSONResponse"}

\* the backend read of the call returned a value that does not deserialize
ReadUndecodable(call) ==
    Did(call, "get", "undecodable") \/ Did(call, "get", "malformed")

\* C23: when the value stored at the derived key fails to deserialize, the
\* cached wrapper invokes f and returns f's result, and when that result is
\* non-null (and JSON can encode it) the key holds afterwards the JSON text of
\* the result with expiry ttl in place of the undecodable entry, so that a
\* later call with the same arguments is a hit.
C23_UndecodableFallback ==
    \A c \in Calls :
        LET call == calls[c]
            last == call.trace[Len(call.trace)]
        IN
        (/\ IsCached(call) /\ call.pc = "done" /\ ReadUndecodable(call)
         /\ last.ev = "f" /\ last.st = "return") =>
            /\ call.outcome = "return" /\ call.retval = last.val
            /\ (last.val # PyNone /\ JsonDumps(last.val).ok) =>
                  /\ HasKey(call.key)
                  /\ store[call.key].val = JsonDumps(last.val).text
                  /\ store[call.key].ttl = call.op.ttl

\* C24: when the custom key resolver of a cached wrapper raises, the caller
\* does not see the failure: the wrapper executes f and the outcome of the
\* call is the outcome of f.
C24_ResolverFailureDegrades ==
    \A c \in Calls :
        LET call == calls[c] IN
        (IsCached(call) /\ call.pc = "done" /\ Did(call, "key_builder", "raise")) =>
            /\ call.exc # BuilderError
            /\ call.fcount >= 1
            /\ Passes(call, call.trace[Len(call.trace)])

\* C26: each call of the cached wrapper executes the wrapped operation at most
\* once, and not at all on a hit, on every path: also when f raises, when the
\* result cannot be serialized and when the backend write fails.
C26_AtMostOnce ==
    \A c \in Calls :
        LET call == calls[c] IN
        IsCached(call) =>
            /\ call.fcount <= 1
            /\ Cardinality(At(call, "f")) <= 1
            /\ Did(call, "get", "hit") => call.fcount = 0

\* both calls are calls of a cached read on one key and both read a miss
BothMissed ==
    /\ IsCached(calls["c1"]) /\ IsCached(calls["c2"])
    /\ calls["c1"].key = calls["c2"].key
    /\ Did(calls["c1"], "get", "miss") /\ Did(calls["c2"], "get", "miss")

\* in this step call c writes the key k: its SETEX succeeds
WritesKey(c, k) ==
    /\ calls[c].pc = "store" /\ calls[c].key = k
    /\ Did(calls'[c], "setex", "ok")

\* in this step call c deletes the key k
DeletesKey(c, k) ==
    /\ calls[c].pc = "delete" /\ Head(calls[c].pending) = k
    /\ calls'[c].trace[Len(calls'[c].trace)].st \in {"ok", "TypeError"}

\* the entry at k is not the same before and after the step
EntryChanges(k) ==
    \/ (k \in DOMAIN store) # (k \in DOMAIN store')
    \/ k \in DOMAIN store /\ k \in DOMAIN store' /\ store[k] # store'[k]

\* C25: the cached wrapper takes no lock. Two calls on one key that both read
\* a miss both execute f, and each whose f returns a non-null result that JSON
\* can encode issues a write of the key; every successful write replaces the
\* entry with the value written and nothing but a write or a delete changes
\* an entry, so that after both calls the entry is that of the write that
\* came last.
C25_NoSingleFlight ==
    /\ [](BothMissed =>
            \A c \in Calls :
                LET call == calls[c] IN
                /\ call.pc \in {"store", "fallback", "done"} => call.fcount >= 1
                /\ (call.pc = "done" /\ FirstF(call).st = "return"
                        /\ FirstF(call).val # PyNone /\ JsonDumps(FirstF(call).val).ok) =>
                      Wrote(call, FirstF(call).val)
                /\ (calls["c1"].pc = "done" /\ calls["c2"].pc = "done"
                        /\ Did(calls["c1"], "setex", "ok")
                        /\ Did(calls["c2"], "setex", "ok")) =>
                      /\ HasKey(call.key)
                      /\ store[call.key].val \in {calls["c1"].ser, calls["c2"].ser})
    /\ [][\A k \in DOMAIN store \cup DOMAIN store' :
             /\ \A c \in Calls :
                   WritesKey(c, k) =>
                      /\ k \in DOMAIN store'
                      /\ store'[k].val = calls[c].ser
                      /\ store'[k].ttl = calls[c].op.ttl
             /\ EntryChanges(k) => \E c \in Calls : WritesKey(c, k) \/ DeletesKey(c, k)]_vars

\* both calls missed, both executed f and both wrote; the results differ and
\* the entry is the one the first call wrote
C25_Witness ==
    /\ BothMissed
    /\ calls["c1"].pc = "done" /\ calls["c2"].pc = "done"
    /\ calls["c1"].fcount = 1 /\ calls["c2"].fcount = 1
    /\ Did(calls["c1"], "setex", "ok") /\ Did(calls["c2"], "setex", "ok")
    /\ calls["c1"].ser # calls["c2"].ser
    /\ store[calls["c1"].key].val = calls["c1"].ser

\* call c2 is a mutation that has returned after deleting the key k, and call
\* c1, a cached read on k, is not in progress
InvalidatedAndQuiet(k) ==
    /\ IsInvalidate(calls["c2"]) /\ calls["c2"].pc = "done"
    /\ calls["c2"].outcome = "return"
    /\ \E i \in At(calls["c2"], "delete") :
          calls["c2"].trace[i].key = k /\ calls["c2"].trace[i].st = "ok"
    /\ IsCached(calls["c1"]) /\ calls["c1"].pc = "done" /\ calls["c1"].key = k

\* C27 as stated: once a mutation that deletes key k has returned and the
\* cached calls on k that overlapped it have finished, the backend holds at k
\* no entry or a value computed from the committed state, never the result a
\* read computed before the commit.
C27_Original ==
    InvalidatedAndQuiet(CustomKey) =>
        \/ ~HasKey(CustomKey)
        \/ store[CustomKey].val = JsonDumps(db).text

\* C27 amended: once the mutation has returned and the cached call on k has
\* finished, the backend holds at k no entry, or the entry a cached call wrote
\* after the delete: the one this call wrote, with the JSON text of the result
\* its f returned (the result from before the commit when f ran before it)
\* and expiry ttl, or the one that was there when this call was entered.
C27_RepopulationByOverlappingRead ==
    LET call == calls["c1"] IN
    (InvalidatedAndQuiet(CustomKey) /\ HasKey(CustomKey)) =>
        \/ /\ Did(call, "setex", "ok")
           /\ store[CustomKey].val = call.ser
           /\ call.ser = JsonDumps(call.result).text
           /\ store[CustomKey].ttl = call.op.ttl
        \/ /\ ~Did(call, "setex", "ok")
           /\ CustomKey \in DOMAIN call.store0
           /\ store[CustomKey] = call.store0[CustomKey]

\* the read missed and ran f before the commit, wrote after the delete, and
\* the entry is not the JSON text of the committed row
C27_Witness ==
    /\ InvalidatedAndQuiet(CustomKey)
    /\ HasKey(CustomKey)
    /\ Did(calls["c1"], "get", "miss") /\ Did(calls["c1"], "setex", "ok")
    /\ calls["c1"].result # db
    /\ store[CustomKey].val = JsonDumps(calls["c1"].result).text
    /\ store[CustomKey].val # JsonDumps(db).text

\* the names of the cached reads of BookService
BookReadNames ==
    {<<"get", "_", "book", "_", "with", "_", "categories">>,
     GetBooksWithCategories.name,
     SearchBooks.name,
     <<"get", "_", "popular", "_", "book", "s">>,
     <<"get", "_", "book", "s", "_", "by", "_", "category">>}

\* k is a key the cached wrapper derives for a read of BookService
IsBookReadKey(k) ==
    \E name \in BookReadNames :
        LET p == book_service \o COLON \o name \o COLON
        IN  Len(k) >= Len(p) /\ SubSeq(k, 1, Len(p)) = p

\* C28: after update_book_ratings has returned without a backend error, no
\* entry written by a cached read of BookService is left in the backend.
C28_RatingUpdateClearsReads ==
    \A c \in Calls :
        LET call == calls[c] IN
        (WildcardDone(call) /\ call.op = UpdateBookRatings) =>
            \A k \in DOMAIN store : ~IsBookReadKey(k)

\* a finished call of an async cached service method on a service whose cache
\* handle is the one BaseService.__init__ obtains, get_redis_client() with
\* use_async=False: a redis.Redis; the backend answers every operation
ServiceReadDone(call) ==
    /\ IsCached(call) /\ call.pc = "done"
    /\ cache = "Redis" /\ call.is_async
    /\ ~Did(call, "get", "error") /\ ~Did(call, "setex", "error")
    /\ ~Did(call, "key_builder", "raise")

\* the entry the key held when the call was entered is a value a cached read
\* stored: non-empty bytes that decode and deserialize
Stored(call) ==
    /\ call.key \in DOMAIN call.store0
    /\ IsHit(call.store0[call.key].val)
    /\ Decode(call.store0[call.key].val).ok
    /\ deserialize_cache_data(Decode(call.store0[call.key].val).text).ok

\* C29: with the cache handle BaseService obtains and a reachable backend, a
\* call of an async cached method that misses stores its JSON-encodable
\* result, and a call that finds a stored result is served from the backend
\* without executing the method body.
C29_ServiceReadsCached ==
    \A c \in Calls :
        LET call == calls[c] IN
        ServiceReadDone(call) =>
            /\ (/\ call.key \notin DOMAIN call.store0
                /\ FirstF(call).st = "return" /\ FirstF(call).val # PyNone
                /\ JsonDumps(FirstF(call).val).ok) =>
                  /\ HasKey(call.key)
                  /\ store[call.key].val = JsonDumps(FirstF(call).val).text
            /\ Stored(call) =>
                  /\ call.fcount = 0
                  /\ Did(call, "get", "hit")

\* C30: the key derived for a cached service read does not depend on the db
\* session object passed as first argument: two calls of one operation with
\* the same entity arguments derive the same key, whatever sessions they use.
C30_KeyIndependentOfSession ==
    \A i, j \in 1..Len(sites) :
        (/\ sites[i].svc = sites[j].svc
         /\ sites[i].op = sites[j].op
         /\ Tail(sites[i].args) = Tail(sites[j].args)
         /\ sites[i].kwargs = sites[j].kwargs) =>
            sites[i].key = sites[j].key

====
